---- MODULE Spec2Model ----
(***************************************************************************)
(* Model of the Greengrass core runtime bridge: the GGError taxonomy and   *)
(* the try_clean macro (src/src/error.rs), the Runtime start sequence, the *)
(* delegating callback, the chunked read loop, the context builder and the *)
(* process-wide handoff channel (src/src/runtime.rs), and the Initializer  *)
(* (src/src/lib.rs).                                                       *)
(***************************************************************************)
EXTENDS Integers, Sequences, FiniteSets, TLC

VARIABLES main, native, chan, workers, handled, dispatches, rd, bt, tc, cv

vars == <<main, native, chan, workers, handled, dispatches, rd, bt, tc, cv>>

(***************************************************************************)
(* Bounds of the model.                                                    *)
(***************************************************************************)
\* status codes 0..MaxCode are drawn; those above the defined ones are unknown
MaxCode == 6
\* one more unknown status code, with several decimal digits
BigCode == 4093
\* reads staged in a read source
MaxReads == 3
\* length in characters of a staged text
MaxTextLen == 2
\* native callback dispatches in one run
MaxDispatch == 2
\* calls of Initializer::init in one run
MaxStarts == 2
\* operations wrapped by try_clean in one request function
MaxOps == 2

(***************************************************************************)
(* Results: GGResult<T> is Ok(val) or Err(err).                            *)
(***************************************************************************)
Unit == "()"

Ok(v) == [ok |-> TRUE, val |-> v]

Err(e) == [ok |-> FALSE, err |-> e]

(***************************************************************************)
(* Native status codes (the gg_error enumeration of the C SDK bindings).   *)
(***************************************************************************)
gg_error_GGE_SUCCESS == 0

gg_error_GGE_OUT_OF_MEMORY == 1

gg_error_GGE_INVALID_PARAMETER == 2

gg_error_GGE_INVALID_STATE == 3

gg_error_GGE_INTERNAL_FAILURE == 4

gg_error_GGE_TERMINATE == 5

CodeSet == (0..MaxCode) \cup {BigCode}

(***************************************************************************)
(* GGError: a variant name and, for the variants that carry one, a payload.*)
(* Text is a sequence of characters or of code points.                     *)
(***************************************************************************)
GGError(kind, payload) == [kind |-> kind, payload |-> payload]

DigitChars == <<"0", "1", "2", "3", "4", "5", "6", "7", "8", "9">>

\* Display of an unsigned integer, as "{}" formats it: its decimal digits
RECURSIVE Decimal(_)
Decimal(n) ==
    IF n < 10 THEN <<DigitChars[n + 1]>>
    ELSE Decimal(n \div 10) \o <<DigitChars[(n % 10) + 1]>>

\* format!("Unknown error code: {}", err_code)
FormatUnknown(err_code) == <<"Unknown error code: ">> \o Decimal(err_code)

from_code_drops_code(err_code) ==
    CASE err_code = gg_error_GGE_SUCCESS -> Ok(Unit)
      [] err_code = gg_error_GGE_OUT_OF_MEMORY -> Err(GGError("OutOfMemory", <<>>))
      [] err_code = gg_error_GGE_INVALID_PARAMETER -> Err(GGError("InvalidParameter", <<>>))
      [] err_code = gg_error_GGE_INVALID_STATE -> Err(GGError("InvalidState", <<>>))
      [] err_code = gg_error_GGE_INTERNAL_FAILURE -> Err(GGError("InternalFailure", <<>>))
      [] err_code = gg_error_GGE_TERMINATE -> Err(GGError("Terminate", <<>>))
      [] OTHER -> Err(GGError("Unknown", <<"Unknown error code: ">>))

\* GGError::from_code
from_code(err_code) ==
    CASE err_code = gg_error_GGE_SUCCESS -> Ok(Unit)
      [] err_code = gg_error_GGE_OUT_OF_MEMORY -> Err(GGError("OutOfMemory", <<>>))
      [] err_code = gg_error_GGE_INVALID_PARAMETER -> Err(GGError("InvalidParameter", <<>>))
      [] err_code = gg_error_GGE_INVALID_STATE -> Err(GGError("InvalidState", <<>>))
      [] err_code = gg_error_GGE_INTERNAL_FAILURE -> Err(GGError("InternalFailure", <<>>))
      [] err_code = gg_error_GGE_TERMINATE -> Err(GGError("Terminate", <<>>))
      [] OTHER -> Err(GGError("Unknown", FormatUnknown(err_code)))

(***************************************************************************)
(* Text handles of the native invocation context.  A String is modelled as *)
(* its sequence of Unicode scalar values, a C string as its bytes in       *)
(* memory, NUL terminator included.                                        *)
(***************************************************************************)
REPLACEMENT_CHARACTER == 65533

IsCont(b) == b >= 128 /\ b <= 191

\* the byte at position i of bs, or -1 past its end
ByteAt(bs, i) == IF i <= Len(bs) THEN bs[i] ELSE -1

\* range of the second byte of a multi-byte sequence led by b
SecondOk(b, c) ==
    CASE b = 224 -> c >= 160 /\ c <= 191
      [] b = 237 -> c >= 128 /\ c <= 159
      [] b = 240 -> c >= 144 /\ c <= 191
      [] b = 244 -> c >= 128 /\ c <= 143
      [] OTHER -> IsCont(c)

\* One step of the lossy decoder at position i: the scalar value produced
\* and the number of bytes consumed (an invalid sequence yields U+FFFD and
\* consumes its maximal valid prefix, at least one byte).
DecodeAt(bs, i) ==
    LET b == bs[i]
        c1 == ByteAt(bs, i + 1)
        c2 == ByteAt(bs, i + 2)
        c3 == ByteAt(bs, i + 3)
        bad(n) == [cp |-> REPLACEMENT_CHARACTER, used |-> n]
    IN  IF b < 128 THEN [cp |-> b, used |-> 1]
        ELSE IF b >= 194 /\ b <= 223 THEN
            IF IsCont(c1) THEN [cp |-> (b - 192) * 64 + (c1 - 128), used |-> 2]
            ELSE bad(1)
        ELSE IF b >= 224 /\ b <= 239 THEN
            IF ~SecondOk(b, c1) THEN bad(1)
            ELSE IF ~IsCont(c2) THEN bad(2)
            ELSE [cp |-> (b - 224) * 4096 + (c1 - 128) * 64 + (c2 - 128), used |-> 3]
        ELSE IF b >= 240 /\ b <= 244 THEN
            IF ~SecondOk(b, c1) THEN bad(1)
            ELSE IF ~IsCont(c2) THEN bad(2)
            ELSE IF ~IsCont(c3) THEN bad(3)
            ELSE [cp |-> (b - 240) * 262144 + (c1 - 128) * 4096
                            + (c2 - 128) * 64 + (c3 - 128),
                  used |-> 4]
        ELSE bad(1)

RECURSIVE DecodeFrom(_, _)
DecodeFrom(bs, i) ==
    IF i > Len(bs) THEN <<>>
    ELSE LET d == DecodeAt(bs, i) IN <<d.cp>> \o DecodeFrom(bs, i + d.used)

\* CStr::to_string_lossy().to_owned().to_string()
to_string_lossy(bs) == DecodeFrom(bs, 1)

\* CStr::from_ptr: the bytes from the pointer up to the first NUL
RECURSIVE CStr_from_ptr(_)
CStr_from_ptr(mem) ==
    IF mem = <<>> \/ Head(mem) = 0 THEN <<>>
    ELSE <<Head(mem)>> \o CStr_from_ptr(Tail(mem))

\* str::as_bytes: the UTF-8 encoding of a text
EncodeChar(cp) ==
    IF cp < 128 THEN <<cp>>
    ELSE IF cp < 2048 THEN <<192 + (cp \div 64), 128 + (cp % 64)>>
    ELSE IF cp < 65536 THEN
        <<224 + (cp \div 4096), 128 + ((cp \div 64) % 64), 128 + (cp % 64)>>
    ELSE <<240 + (cp \div 262144), 128 + ((cp \div 4096) % 64),
           128 + ((cp \div 64) % 64), 128 + (cp % 64)>>

RECURSIVE Utf8Encode(_)
Utf8Encode(text) ==
    IF text = <<>> THEN <<>>
    ELSE EncodeChar(Head(text)) \o Utf8Encode(Tail(text))

\* CString::new(text), as the native side stages a text handle
CString_new(text) == Utf8Encode(text) \o <<0>>

\* LambdaContext::new
LambdaContext_new(function_arn, client_context, message) ==
    [function_arn |-> function_arn, client_context |-> client_context,
     message |-> message]

(***************************************************************************)
(* The chunked read.  A read source is the sequence of responses the       *)
(* native read primitive gives to successive calls: a status and the bytes *)
(* it wrote; once the staged responses are used up it reports zero bytes.  *)
(***************************************************************************)
BUFFER_SIZE == 100

\* gg_lambda_handler_read(buffer, BUFFER_SIZE, &read), n-th call on src
gg_lambda_handler_read(src, n, buffer_size) ==
    LET r == IF n <= Len(src) THEN src[n]
             ELSE [code |-> gg_error_GGE_SUCCESS, data |-> <<>>]
    IN  [status |-> r.code,
         buffer |-> [i \in 1..buffer_size |->
                        IF i <= Len(r.data) THEN r.data[i] ELSE 0],
         read |-> Len(r.data)]

RECURSIVE read_loop_whole_buffer(_, _, _)
read_loop_whole_buffer(src, n, collected) ==
    LET r == gg_lambda_handler_read(src, n, BUFFER_SIZE)
        conv == from_code(r.status)
    IN  IF ~conv.ok THEN [res |-> Err(conv.err), reads |-> n]
        ELSE IF r.read > 0
            THEN read_loop_whole_buffer(src, n + 1, collected \o r.buffer)
        ELSE [res |-> Ok(collected), reads |-> n]

RECURSIVE read_loop_ignores_status(_, _, _)
read_loop_ignores_status(src, n, collected) ==
    LET r == gg_lambda_handler_read(src, n, BUFFER_SIZE)
    IN  IF r.read > 0
            THEN read_loop_ignores_status(src, n + 1,
                                          collected \o SubSeq(r.buffer, 1, r.read))
        ELSE [res |-> Ok(collected), reads |-> n]

\* the loop of handler_read_message, entered for the n-th read with the
\* bytes collected so far; reads counts the calls of the read primitive
RECURSIVE read_loop(_, _, _)
read_loop(src, n, collected) ==
    LET r == gg_lambda_handler_read(src, n, BUFFER_SIZE)
        conv == from_code(r.status)
    IN  IF ~conv.ok THEN [res |-> Err(conv.err), reads |-> n]
        ELSE IF r.read > 0
            THEN read_loop(src, n + 1, collected \o SubSeq(r.buffer, 1, r.read))
        ELSE [res |-> Ok(collected), reads |-> n]

\* handler_read_message
handler_read_message(src) == read_loop(src, 1, <<>>)

build_context_swaps_fields(c_ctx, src) ==
    LET m == handler_read_message(src)
    IN  IF ~m.res.ok THEN [res |-> Err(m.res.err), reads |-> m.reads]
        ELSE [res |-> Ok(LambdaContext_new(
                            to_string_lossy(CStr_from_ptr(c_ctx.client_context)),
                            to_string_lossy(CStr_from_ptr(c_ctx.function_arn)),
                            m.res.val)),
              reads |-> m.reads]

\* build_context
build_context(c_ctx, src) ==
    LET m == handler_read_message(src)
    IN  IF ~m.res.ok THEN [res |-> Err(m.res.err), reads |-> m.reads]
        ELSE [res |-> Ok(LambdaContext_new(
                            to_string_lossy(CStr_from_ptr(c_ctx.function_arn)),
                            to_string_lossy(CStr_from_ptr(c_ctx.client_context)),
                            m.res.val)),
              reads |-> m.reads]

(***************************************************************************)
(* Conversions into GGError.  A foreign error is a record of its type and  *)
(* what it carries: NulError the position of the NUL and the bytes,        *)
(* SendError the message that was not sent, RecvError nothing,             *)
(* FromUtf8Error the length of the valid prefix and the bytes, SerdeError  *)
(* its line, column and category.                                          *)
(***************************************************************************)
NulError(pos, bytes) == [type |-> "NulError", detail |-> <<pos, bytes>>]

SendError(msg) == [type |-> "SendError", detail |-> <<msg>>]

RecvError == [type |-> "RecvError", detail |-> <<>>]

FromUtf8Error(valid_up_to, bytes) ==
    [type |-> "FromUtf8Error", detail |-> <<valid_up_to, bytes>>]

SerdeError(line, column, category) ==
    [type |-> "SerdeError", detail |-> <<line, column, category>>]

\* format!("{}", e) of a FromUtf8Error: the position of the failure, not
\* the bytes
FormatFromUtf8Error(e) ==
    <<"invalid utf-8 sequence from index ">> \o Decimal(e.detail[1])

\* impl From<...> for GGError
GGError_from(e) ==
    CASE e.type = "NulError" -> GGError("NulError", e)
      [] e.type = "SendError" -> GGError("HandlerChannelSendError", e)
      [] e.type = "RecvError" -> GGError("HandlerChannelRecvError", e)
      [] e.type = "FromUtf8Error" -> GGError("InvalidString", FormatFromUtf8Error(e))
      [] e.type = "SerdeError" -> GGError("JsonError", e)

source_none(self) == <<>>

\* Error::source of a GGError: the wrapped error of four variants
source(self) ==
    IF self.kind \in {"NulError", "HandlerChannelSendError",
                      "HandlerChannelRecvError", "JsonError"}
        THEN <<self.payload>>
    ELSE <<>>

(***************************************************************************)
(* The handoff channel: the process-wide CHANNEL holds the one Sender and  *)
(* the one Receiver of an unbounded FIFO queue.  A queued item carries the *)
(* number of the dispatch that sent it (id), kept only for reference.      *)
(***************************************************************************)
ChannelHolder_new_keeps_receiver_only ==
    [queue |-> <<>>, senders |-> 0, receivers |-> 1]

\* ChannelHolder::new
ChannelHolder_new == [queue |-> <<>>, senders |-> 1, receivers |-> 1]

ChannelHolder_send_drops(ch, context, id) ==
    [blocks |-> FALSE, res |-> Ok(Unit), chan |-> ch]

ChannelHolder_send_bounded(ch, context, id) ==
    IF ch.receivers = 0
        THEN [blocks |-> FALSE, res |-> Err(GGError_from(SendError(context))),
              chan |-> ch]
    ELSE IF ch.queue # <<>>
        THEN [blocks |-> TRUE, res |-> Ok(Unit), chan |-> ch]
    ELSE [blocks |-> FALSE, res |-> Ok(Unit),
          chan |-> [ch EXCEPT !.queue = Append(@, [id |-> id, ctx |-> context])]]

\* ChannelHolder::send on the unbounded channel: never blocks, and fails
\* only when every receiver is gone
ChannelHolder_send(ch, context, id) ==
    IF ch.receivers = 0
        THEN [blocks |-> FALSE, res |-> Err(GGError_from(SendError(context))),
              chan |-> ch]
    ELSE [blocks |-> FALSE, res |-> Ok(Unit),
          chan |-> [ch EXCEPT !.queue = Append(@, [id |-> id, ctx |-> context])]]

ChannelHolder_recv_blank(ch) ==
    IF ch.queue # <<>>
        THEN [blocks |-> FALSE,
              res |-> Ok([Head(ch.queue) EXCEPT
                            !.ctx = LambdaContext_new(<<>>, <<>>, <<>>)]),
              chan |-> [ch EXCEPT !.queue = Tail(@)]]
    ELSE IF ch.senders = 0
        THEN [blocks |-> FALSE, res |-> Err(GGError_from(RecvError)),
              chan |-> ch]
    ELSE [blocks |-> TRUE, res |-> Ok(Unit), chan |-> ch]

\* ChannelHolder::recv: the oldest item; blocks while the queue is empty
\* and a sender exists; fails when it is empty and every sender is gone
ChannelHolder_recv(ch) ==
    IF ch.queue # <<>>
        THEN [blocks |-> FALSE, res |-> Ok(Head(ch.queue)),
              chan |-> [ch EXCEPT !.queue = Tail(@)]]
    ELSE IF ch.senders = 0
        THEN [blocks |-> FALSE, res |-> Err(GGError_from(RecvError)),
              chan |-> ch]
    ELSE [blocks |-> TRUE, res |-> Ok(Unit), chan |-> ch]

delgating_handler_unwinds(c_ctx, src, ch, id) ==
    LET b == build_context(c_ctx, src)
        result == IF b.res.ok THEN ChannelHolder_send(ch, b.res.val, id)
                  ELSE [blocks |-> FALSE, res |-> Err(b.res.err), chan |-> ch]
    IN  [chan |-> result.chan, errors |-> <<>>, built |-> b.res, reads |-> b.reads,
         blocks |-> result.blocks,
         ret |-> IF result.res.ok THEN "returned" ELSE "unwound"]

\* delgating_handler: build_context(c_ctx).and_then(ChannelHolder::send),
\* an Err is logged; errors are the entries it logs at error level
delgating_handler(c_ctx, src, ch, id) ==
    LET b == build_context(c_ctx, src)
        result == IF b.res.ok THEN ChannelHolder_send(ch, b.res.val, id)
                  ELSE [blocks |-> FALSE, res |-> Err(b.res.err), chan |-> ch]
    IN  [chan |-> result.chan,
         errors |-> IF result.res.ok THEN <<>> ELSE <<result.res.err>>,
         built |-> b.res, reads |-> b.reads, blocks |-> result.blocks,
         ret |-> "returned"]

(***************************************************************************)
(* Inputs.                                                                 *)
(***************************************************************************)
\* sequences over S of length at most n
SeqsUpTo(S, n) == UNION {[1..k -> S] : k \in 0..n}

\* 'a', e-acute, the euro sign, an emoji: encodings of 1, 2, 3 and 4 bytes
TextAlphabet == {97, 233, 8364, 128512}

TextSet == SeqsUpTo(TextAlphabet, MaxTextLen)

\* handles that do not hold well-formed text: a stray byte, a truncated
\* sequence, bytes after the terminator
RawHandles == {<<255, 0>>, <<97, 195, 0>>, <<98, 0, 99, 0>>}

HandleSet == {CString_new(t) : t \in TextSet} \cup RawHandles

CtxSet == [function_arn : HandleSet, client_context : HandleSet]

FullChunk == [i \in 1..BUFFER_SIZE |-> i]

ChunkSet == {<<7>>, <<8, 9>>, FullChunk}

ReadResponses ==
    {[code |-> gg_error_GGE_SUCCESS, data |-> d] : d \in ChunkSet \cup {<<>>}}
    \cup {[code |-> c, data |-> <<7>>] : c \in CodeSet \ {gg_error_GGE_SUCCESS}}

ReadSources == SeqsUpTo(ReadResponses, MaxReads)

\* the read sources staged for the context builder
BuildSources ==
    {s \in ReadSources : Len(s) <= 1}
    \cup {<<[code |-> gg_error_GGE_SUCCESS, data |-> <<8, 9>>],
           [code |-> gg_error_GGE_SUCCESS, data |-> <<7>>]>>}

\* the foreign failures converted: byte strings with a NUL, contexts that
\* were not sent, byte strings that are not UTF-8, JSON syntax positions
RECURSIVE FirstIndex(_, _, _)
FirstIndex(bs, b, i) ==
    IF i > Len(bs) \/ bs[i] = b THEN i - 1 ELSE FirstIndex(bs, b, i + 1)

RECURSIVE ValidUpTo(_, _)
ValidUpTo(bs, i) ==
    IF i > Len(bs) THEN Len(bs)
    ELSE LET d == DecodeAt(bs, i)
         IN  IF d.cp = REPLACEMENT_CHARACTER /\ ~(bs[i] = 239 /\ d.used = 3)
                 THEN i - 1
             ELSE ValidUpTo(bs, i + d.used)

ForeignErrors ==
    {NulError(FirstIndex(bs, 0, 1), bs) :
        bs \in {b \in SeqsUpTo({0, 97}, MaxTextLen + 1) : FirstIndex(b, 0, 1) < Len(b)}}
    \cup {SendError(LambdaContext_new(a, <<>>, m)) : a \in TextSet, m \in {<<>>, <<7>>}}
    \cup {RecvError}
    \cup {FromUtf8Error(ValidUpTo(bs, 1), bs) :
        bs \in {b \in SeqsUpTo({97, 195, 255}, MaxTextLen + 1) : ValidUpTo(b, 1) < Len(b)}}
    \cup {SerdeError(l, c, k) :
        l \in 1..MaxTextLen, c \in 1..MaxTextLen, k \in {"Syntax", "Eof", "Data"}}

(***************************************************************************)
(* State.                                                                  *)
(***************************************************************************)
NoItem == [id |-> 0, ctx |-> LambdaContext_new(<<>>, <<>>, <<>>)]

MainInit ==
    [pc |-> "idle", handler |-> FALSE, opt |-> "Sync", calls |-> 0,
     init_res |-> <<>>, start_res |-> <<>>, started |-> <<>>, result |-> <<>>]

NativeInit == [cb |-> "none", opt |-> 0]

RdInit == [pc |-> "ready", src |-> <<>>, out |-> [res |-> Ok(<<>>), reads |-> 0]]

BtInit ==
    [pc |-> "ready", c_ctx |-> [function_arn |-> <<0>>, client_context |-> <<0>>],
     src |-> <<>>, out |-> [res |-> Ok(<<>>), reads |-> 0]]

TcInit ==
    [pc |-> "run", req |-> "req", vals |-> <<>>, op |-> Ok(Unit), closed |-> <<>>,
     close_res |-> <<>>, ret |-> Ok(Unit)]

CvInit == [pc |-> "new", e |-> <<>>, gg |-> <<>>, source |-> <<>>]

Init ==
    /\ main = MainInit
    /\ native = NativeInit
    /\ chan = ChannelHolder_new
    /\ workers = <<>>
    /\ handled = <<>>
    /\ dispatches = <<>>
    /\ rd = RdInit
    /\ bt = BtInit
    /\ tc = TcInit
    /\ cv = CvInit

bridge == <<main, native, chan, workers, handled, dispatches>>

(***************************************************************************)
(* The chunked read and the context builder, called directly on a staged   *)
(* read source and a staged context (as test_build_context does).          *)
(***************************************************************************)
ReadMessage ==
    /\ rd.pc = "ready" /\ bt.pc = "ready"
    /\ \E src \in ReadSources :
          rd' = [pc |-> "done", src |-> src, out |-> handler_read_message(src)]
    /\ UNCHANGED <<bridge, bt, tc, cv>>

BuildContext ==
    /\ rd.pc = "ready" /\ bt.pc = "ready"
    /\ \E c_ctx \in CtxSet, src \in BuildSources :
          bt' = [pc |-> "done", c_ctx |-> c_ctx, src |-> src,
                 out |-> build_context(c_ctx, src)]
    /\ UNCHANGED <<bridge, rd, tc, cv>>

NextBuild == ReadMessage \/ BuildContext

SpecBuild == Init /\ [][NextBuild]_vars

(***************************************************************************)
(* try_clean: a request function applies operations to its request, each   *)
(* wrapped in try_clean!(req, expr).  gg_request_close is native: its       *)
(* status is drawn.                                                        *)
(***************************************************************************)
OpValues == {1, 2}

\* the errors an operation on a request fails with: those of the native
\* status codes and one that no status code maps to
OpErrors ==
    {from_code(c).err : c \in CodeSet \ {gg_error_GGE_SUCCESS}}
    \cup {GGError("JsonError", <<>>)}

OpResults == {Ok(v) : v \in OpValues} \cup {Err(e) : e \in OpErrors}

try_clean_skips_close(req, expr, close_res) ==
    IF expr.ok
        THEN [returned |-> FALSE, val |-> expr.val, closed |-> <<>>, ret |-> expr]
    ELSE [returned |-> TRUE, val |-> Unit, closed |-> <<>>, ret |-> Err(expr.err)]

\* try_clean!(req, expr): the value of an Ok; on an Err the request is
\* closed, a failed close is returned, otherwise the Err is returned.
\* closed lists the requests gg_request_close was called on.
try_clean(req, expr, close_res) ==
    IF expr.ok
        THEN [returned |-> FALSE, val |-> expr.val, closed |-> <<>>, ret |-> expr]
    ELSE LET c == from_code(close_res)
         IN  IF ~c.ok
                 THEN [returned |-> TRUE, val |-> Unit, closed |-> <<req>>,
                       ret |-> Err(c.err)]
             ELSE [returned |-> TRUE, val |-> Unit, closed |-> <<req>>,
                   ret |-> Err(expr.err)]

TryClean ==
    /\ tc.pc = "run" /\ Len(tc.vals) < MaxOps
    /\ \E expr \in OpResults, close_res \in CodeSet :
          LET m == try_clean(tc.req, expr, close_res)
          IN  tc' = IF m.returned
                        THEN [tc EXCEPT !.pc = "returned", !.op = expr,
                                        !.closed = @ \o m.closed,
                                        !.close_res = IF m.closed = <<>> THEN <<>>
                                                      ELSE <<close_res>>,
                                        !.ret = m.ret]
                    ELSE [tc EXCEPT !.op = expr, !.vals = Append(@, m.val),
                                    !.closed = @ \o m.closed]
    /\ UNCHANGED <<bridge, rd, bt, cv>>

NextClean == TryClean

SpecClean == Init /\ [][NextClean]_vars

(***************************************************************************)
(* SpecConv: a foreign error is converted with GGError::from and source()  *)
(* is called on the result.                                                *)
(***************************************************************************)
Convert ==
    /\ cv.pc = "new"
    /\ \E e \in ForeignErrors :
          cv' = [cv EXCEPT !.pc = "converted", !.e = <<e>>, !.gg = <<GGError_from(e)>>]
    /\ UNCHANGED <<bridge, rd, bt, tc>>

Source ==
    /\ cv.pc = "converted"
    /\ cv' = [cv EXCEPT !.pc = "sourced", !.source = <<source(cv.gg[1])>>]
    /\ UNCHANGED <<bridge, rd, bt, tc>>

NextConv == Convert \/ Source

SpecConv == Init /\ [][NextConv]_vars

(***************************************************************************)
(* The bridge: the thread calling Initializer::init, the native runtime    *)
(* dispatching the registered callback, and the worker threads.            *)
(***************************************************************************)
RuntimeOptions == {"Sync", "Async"}

gg_runtime_opt_GG_RT_OPT_ASYNC == 1

as_opt_always_async(opt) == gg_runtime_opt_GG_RT_OPT_ASYNC

\* RuntimeOption::as_opt
as_opt(opt) == IF opt = "Sync" THEN 0 ELSE gg_runtime_opt_GG_RT_OPT_ASYNC

\* the callback Runtime::start registers
c_handler(m) == IF m.handler THEN "delgating_handler" ELSE "no_op_handler"

\* the status codes the native library answers init and start with
StartCodes ==
    {gg_error_GGE_SUCCESS, gg_error_GGE_INVALID_STATE, gg_error_GGE_TERMINATE}

\* the invocations the native library dispatches
CtxA == [function_arn |-> CString_new(<<97>>), client_context |-> CString_new(<<>>)]

CtxB == [function_arn |-> CString_new(<<233>>), client_context |-> CString_new(<<97>>)]

DispatchInputs ==
    {[c_ctx |-> CtxA, src |-> <<[code |-> gg_error_GGE_SUCCESS, data |-> <<7>>]>>],
     [c_ctx |-> CtxB, src |-> <<[code |-> gg_error_GGE_SUCCESS, data |-> <<8, 9>>],
                                [code |-> gg_error_GGE_SUCCESS, data |-> <<7>>]>>],
     [c_ctx |-> CtxA, src |-> <<[code |-> gg_error_GGE_SUCCESS, data |-> <<7>>],
                                [code |-> gg_error_GGE_INVALID_STATE, data |-> <<7>>]>>]}

Initializer_init_ignores_status(codes) ==
    /\ main.pc = "idle" /\ main.calls < MaxStarts
    /\ \E h \in BOOLEAN, opt \in RuntimeOptions, init_res \in codes :
          main' = [main EXCEPT !.calls = @ + 1, !.init_res = <<init_res>>,
                               !.start_res = <<>>, !.started = <<>>,
                               !.pc = "start", !.handler = h, !.opt = opt,
                               !.result = <<>>]
    /\ UNCHANGED <<native, chan, workers, handled, dispatches, rd, bt, tc, cv>>

\* Initializer::init up to the call of Runtime::start: gg_global_init(0),
\* a non-success status is returned as its error
Initializer_init(codes) ==
    /\ main.pc = "idle" /\ main.calls < MaxStarts
    /\ \E h \in BOOLEAN, opt \in RuntimeOptions, init_res \in codes :
          LET c == from_code(init_res)
              m == [main EXCEPT !.calls = @ + 1, !.init_res = <<init_res>>,
                                !.start_res = <<>>, !.started = <<>>]
          IN  main' = IF c.ok
                          THEN [m EXCEPT !.pc = "start", !.handler = h, !.opt = opt,
                                         !.result = <<>>]
                      ELSE [m EXCEPT !.pc = "idle", !.result = <<Err(c.err)>>]
    /\ UNCHANGED <<native, chan, workers, handled, dispatches, rd, bt, tc, cv>>

spawn_always(ws, m) ==
    Append(ws, [pc |-> "recv", item |-> NoItem, handler |-> m.calls])

spawn_never(ws, m) == ws

\* thread::spawn of the worker loop, when a handler is configured
spawn(ws, m) ==
    IF m.handler
        THEN Append(ws, [pc |-> "recv", item |-> NoItem, handler |-> m.calls])
    ELSE ws

\* Runtime::start up to the call of gg_runtime_start
Runtime_start ==
    /\ main.pc = "start"
    /\ workers' = spawn(workers, main)
    /\ main' = [main EXCEPT !.pc = "native_start"]
    /\ UNCHANGED <<native, chan, handled, dispatches, rd, bt, tc, cv>>

Runtime_start_result_ignores_status(start_res) == Ok(Unit)

\* the end of Runtime::start: GGError::from_code(start_res)?; Ok(())
Runtime_start_result(start_res) ==
    LET c == from_code(start_res)
    IN  IF c.ok THEN Ok(Unit) ELSE Err(c.err)

\* the end of Initializer::init: self.runtime.start()?; Ok(())
Initializer_init_result(started) ==
    IF started.ok THEN Ok(Unit) ELSE Err(started.err)

\* gg_runtime_start has returned start_res: Runtime::start returns, and
\* Initializer::init returns in turn; the Runtime was consumed
start_return(m, start_res) ==
    LET started == Runtime_start_result(start_res)
    IN  [m EXCEPT !.pc = "idle", !.handler = FALSE, !.opt = "Sync",
                  !.start_res = <<start_res>>, !.started = <<started>>,
                  !.result = <<Initializer_init_result(started)>>]

\* gg_runtime_start refuses to start: it returns a non-success status and
\* keeps no callback
RuntimeStartRefused(codes) ==
    /\ main.pc = "native_start"
    /\ \E code \in codes \ {gg_error_GGE_SUCCESS} : main' = start_return(main, code)
    /\ UNCHANGED <<native, chan, workers, handled, dispatches, rd, bt, tc, cv>>

\* gg_runtime_start in asynchronous mode: the callback is registered and
\* the call returns success while the native library runs on its own thread
RuntimeStartAsync ==
    /\ main.pc = "native_start" /\ as_opt(main.opt) = gg_runtime_opt_GG_RT_OPT_ASYNC
    /\ native' = [cb |-> c_handler(main), opt |-> as_opt(main.opt)]
    /\ main' = start_return(main, gg_error_GGE_SUCCESS)
    /\ UNCHANGED <<chan, workers, handled, dispatches, rd, bt, tc, cv>>

\* gg_runtime_start in blocking mode: the callback is registered and the
\* calling thread stays inside the native library
RuntimeStartSync ==
    /\ main.pc = "native_start" /\ as_opt(main.opt) = 0
    /\ native' = [cb |-> c_handler(main), opt |-> as_opt(main.opt)]
    /\ main' = [main EXCEPT !.pc = "in_native"]
    /\ UNCHANGED <<chan, workers, handled, dispatches, rd, bt, tc, cv>>

\* the native library exits: the blocking gg_runtime_start returns
RuntimeExitSync(codes) ==
    /\ main.pc = "in_native"
    /\ \E code \in codes : main' = start_return(main, code)
    /\ native' = [native EXCEPT !.cb = "none"]
    /\ UNCHANGED <<chan, workers, handled, dispatches, rd, bt, tc, cv>>

\* the native library calls the delegating callback, which returns once
\* its send has gone through
DispatchDelegating ==
    /\ native.cb = "delgating_handler" /\ Len(dispatches) < MaxDispatch
    /\ \E in \in DispatchInputs :
          LET id == Len(dispatches) + 1
              r == delgating_handler(in.c_ctx, in.src, chan, id)
          IN  /\ ~r.blocks
              /\ chan' = r.chan
              /\ dispatches' = Append(dispatches,
                    [cb |-> native.cb, c_ctx |-> in.c_ctx, src |-> in.src,
                     built |-> <<r.built>>, reads |-> r.reads,
                     errors |-> r.errors, ret |-> r.ret])
    /\ UNCHANGED <<main, native, workers, handled, rd, bt, tc, cv>>

\* the native library calls the no-op callback (no_op_handler only logs at
\* info level)
DispatchNoOp ==
    /\ native.cb = "no_op_handler" /\ Len(dispatches) < MaxDispatch
    /\ \E in \in DispatchInputs :
          dispatches' = Append(dispatches,
                [cb |-> native.cb, c_ctx |-> in.c_ctx, src |-> in.src,
                 built |-> <<>>, reads |-> 0, errors |-> <<>>, ret |-> "returned"])
    /\ UNCHANGED <<main, native, chan, workers, handled, rd, bt, tc, cv>>

\* the worker loop at ChannelHolder::recv(): an Ok(context) is taken to
\* the handler, an Err is logged and the loop goes round
WorkerRecv(w) ==
    /\ workers[w].pc = "recv"
    /\ LET r == ChannelHolder_recv(chan)
       IN  /\ ~r.blocks
           /\ chan' = r.chan
           /\ workers' = [workers EXCEPT ![w] =
                            IF r.res.ok THEN [@ EXCEPT !.pc = "got", !.item = r.res.val]
                            ELSE [@ EXCEPT !.pc = "recv"]]
    /\ UNCHANGED <<main, native, handled, dispatches, rd, bt, tc, cv>>

\* the worker calls handler.handle(context)
WorkerHandle(w) ==
    /\ workers[w].pc = "got"
    /\ handled' = Append(handled, workers[w].item)
    /\ workers' = [workers EXCEPT ![w] = [@ EXCEPT !.pc = "handling", !.item = NoItem]]
    /\ UNCHANGED <<main, native, chan, dispatches, rd, bt, tc, cv>>

\* handler.handle returns
HandleReturn(w) ==
    /\ workers[w].pc = "handling"
    /\ workers' = [workers EXCEPT ![w] = [@ EXCEPT !.pc = "recv"]]
    /\ UNCHANGED <<main, native, chan, handled, dispatches, rd, bt, tc, cv>>

Next ==
    \/ Initializer_init(StartCodes)
    \/ Runtime_start
    \/ RuntimeStartRefused(StartCodes)
    \/ RuntimeStartAsync
    \/ RuntimeStartSync
    \/ RuntimeExitSync(StartCodes)
    \/ DispatchDelegating
    \/ DispatchNoOp
    \/ \E w \in 1..Len(workers) : WorkerRecv(w)
    \/ \E w \in 1..Len(workers) : WorkerHandle(w)
    \/ \E w \in 1..Len(workers) : HandleReturn(w)

Spec == Init /\ [][Next]_vars

\* the worker threads are scheduled fairly and, in normal operation, the
\* application's handle returns
FairSpec ==
    /\ Spec
    /\ \A w \in 1..MaxStarts :
          /\ WF_vars(w \in 1..Len(workers) /\ WorkerRecv(w))
          /\ WF_vars(w \in 1..Len(workers) /\ WorkerHandle(w))
          /\ WF_vars(w \in 1..Len(workers) /\ HandleReturn(w))

\* the thread calling Initializer::init alone, with every status code
NextInit ==
    \/ Initializer_init(CodeSet)
    \/ Runtime_start
    \/ RuntimeStartRefused(CodeSet)
    \/ RuntimeStartAsync
    \/ RuntimeStartSync
    \/ RuntimeExitSync(CodeSet)

SpecInit == Init /\ [][NextInit]_vars

(***************************************************************************)
(* Properties.                                                             *)
(***************************************************************************)
\* the variant the C API documents for each defined status code
VariantOf(code) ==
    CASE code = 1 -> "OutOfMemory"
      [] code = 2 -> "InvalidParameter"
      [] code = 3 -> "InvalidState"
      [] code = 4 -> "InternalFailure"
      [] code = 5 -> "Terminate"
      [] OTHER -> "Unknown"

\* the number a sequence of decimal digit characters reads as
RECURSIVE ParseDecimal(_)
ParseDecimal(ds) ==
    IF ds = <<>> THEN 0
    ELSE 10 * ParseDecimal(SubSeq(ds, 1, Len(ds) - 1))
         + (CHOOSE d \in 0..9 : DigitChars[d + 1] = ds[Len(ds)])

\* e is the error that matches the non-success status code
MatchesCode(e, code) ==
    /\ e.kind = VariantOf(code)
    /\ IF code \in 1..5 THEN e.payload = <<>>
       ELSE /\ Len(e.payload) >= 2
            /\ ParseDecimal(Tail(e.payload)) = code

\* the non-empty chunks a read source yields before its first empty read
RECURSIVE ChunksOf(_)
ChunksOf(src) ==
    IF src = <<>> \/ Head(src).data = <<>> THEN <<>>
    ELSE <<Head(src).data>> \o ChunksOf(Tail(src))

RECURSIVE Flatten(_)
Flatten(chunks) ==
    IF chunks = <<>> THEN <<>> ELSE Head(chunks) \o Flatten(Tail(chunks))

RECURSIVE TotalLen(_)
TotalLen(chunks) ==
    IF chunks = <<>> THEN 0 ELSE Len(Head(chunks)) + TotalLen(Tail(chunks))

\* every read up to and including the zero-length one returns success
AllReadsSucceed(src) ==
    \A i \in 1..Len(src) :
        i <= Len(ChunksOf(src)) + 1 => src[i].code = gg_error_GGE_SUCCESS

\* the f-th read is issued and is the first to return a non-success status
FirstFailure(src, f) ==
    /\ f \in 1..Len(src)
    /\ src[f].code # gg_error_GGE_SUCCESS
    /\ \A i \in 1..(f - 1) :
          src[i].code = gg_error_GGE_SUCCESS /\ src[i].data # <<>>

\* C5: on a read source yielding non-empty chunks of at most BUFFER_SIZE
\* bytes, N bytes in all, then a zero-length read, every read succeeding,
\* handler_read_message returns the concatenation of the chunks in order,
\* of length N.
C5_ReadAssemblesChunks ==
    (rd.pc = "done" /\ AllReadsSucceed(rd.src)) =>
        /\ rd.out.res = Ok(Flatten(ChunksOf(rd.src)))
        /\ Len(rd.out.res.val) = TotalLen(ChunksOf(rd.src))
        /\ rd.out.reads = Len(ChunksOf(rd.src)) + 1

C5_Witness ==
    /\ rd.pc = "done" /\ AllReadsSucceed(rd.src)
    /\ Len(ChunksOf(rd.src)) = 2
    /\ rd.src[1].data = FullChunk /\ rd.src[2].data = <<8, 9>>
    /\ Len(rd.out.res.val) = BUFFER_SIZE + 2

\* C6: when a read returns a non-success status, be it the first, a middle
\* or the last read, handler_read_message issues no further read and
\* returns Err with the variant matching that status, and no bytes.
C6_ReadFailureAborts ==
    \A f \in 1..MaxReads :
        (rd.pc = "done" /\ FirstFailure(rd.src, f)) =>
            /\ ~rd.out.res.ok
            /\ DOMAIN rd.out.res = {"ok", "err"}
            /\ MatchesCode(rd.out.res.err, rd.src[f].code)
            /\ rd.out.reads = f

C6_Witness ==
    /\ rd.pc = "done" /\ FirstFailure(rd.src, 3)
    /\ rd.src[1].data = <<7>> /\ rd.src[2].data = <<8, 9>>
    /\ rd.src[3].code = gg_error_GGE_INVALID_STATE
    /\ rd.out.res = Err(GGError("InvalidState", <<>>))

\* the text each well-formed handle was staged from
TextOfHandle ==
    [h \in {CString_new(t) : t \in TextSet} |->
        CHOOSE t \in TextSet : CString_new(t) = h]

\* the handle holds the text t, NUL-terminated
HoldsText(handle, t) == handle = CString_new(t)

\* C7: for a function identifier text, a client context text and message
\* bytes staged in chunks of at most BUFFER_SIZE bytes, build_context
\* returns a context whose three fields equal those inputs.
C7_BuildContextFields ==
    ( /\ bt.pc = "done"
      /\ bt.c_ctx.function_arn \in DOMAIN TextOfHandle
      /\ bt.c_ctx.client_context \in DOMAIN TextOfHandle
      /\ AllReadsSucceed(bt.src) ) =>
        /\ bt.out.res.ok
        /\ bt.out.res.val.function_arn = TextOfHandle[bt.c_ctx.function_arn]
        /\ bt.out.res.val.client_context = TextOfHandle[bt.c_ctx.client_context]
        /\ bt.out.res.val.message = Flatten(ChunksOf(bt.src))

C7_Witness ==
    /\ bt.pc = "done"
    /\ HoldsText(bt.c_ctx.function_arn, <<233, 97>>)
    /\ HoldsText(bt.c_ctx.client_context, <<8364, 128512>>)
    /\ Len(bt.src) = 2 /\ AllReadsSucceed(bt.src)
    /\ bt.out.res = Ok(LambdaContext_new(<<233, 97>>, <<8364, 128512>>, <<8, 9, 7>>))

\* C8: when the operation wrapped by try_clean fails, gg_request_close is
\* called on that request before control returns; when it succeeds the
\* macro yields its value and does not close the request.
C8_CloseOnFailureOnly ==
    /\ tc.pc = "returned" => (~tc.op.ok /\ tc.closed = <<tc.req>>)
    /\ (tc.pc = "run" /\ tc.vals # <<>>) =>
          /\ tc.op.ok
          /\ tc.vals[Len(tc.vals)] = tc.op.val
          /\ tc.closed = <<>>

C8_Witness ==
    /\ tc.pc = "returned" /\ Len(tc.vals) = 1
    /\ tc.op = Err(GGError("JsonError", <<>>))
    /\ tc.close_res = <<gg_error_GGE_INTERNAL_FAILURE>>
    /\ tc.closed = <<tc.req>>

\* C9: when an operation wrapped by try_clean fails with error E, the
\* error returned to the caller is E, whether gg_request_close returns
\* success or a non-success status.
C9_OriginalErrorReturned ==
    tc.pc = "returned" => tc.ret = Err(tc.op.err)

\* the error of a result that must be an Err matches the status code
IsErrOf(res, code) ==
    /\ ~res.ok
    /\ DOMAIN res = {"ok", "err"}
    /\ MatchesCode(res.err, code)

\* what from_code must give for a status code
IsFromCode(res, code) ==
    IF code = 0 THEN res = Ok(Unit) ELSE IsErrOf(res, code)

\* C4: from_code returns Ok(()) exactly for the success status code, the
\* matching variant for each of the five other defined codes, and the
\* Unknown variant carrying the code for every other code.  Seen where
\* Initializer::init and Runtime::start convert the status codes of
\* gg_global_init and gg_runtime_start.
C4_FromCodeTable ==
    (main.pc = "idle" /\ main.calls > 0) =>
        /\ Len(main.result) = 1
        /\ IF main.start_res = <<>>
               THEN /\ main.init_res # <<0>>
                    /\ IsFromCode(main.result[1], main.init_res[1])
           ELSE /\ main.init_res = <<0>>
                /\ IsFromCode(main.result[1], main.start_res[1])

C4_Witness ==
    /\ main.pc = "idle" /\ main.calls = 2
    /\ main.init_res = <<0>> /\ main.start_res = <<BigCode>>
    /\ main.result[1].err.kind = "Unknown"
    /\ Len(main.result[1].err.payload) = 5
    /\ ParseDecimal(Tail(main.result[1].err.payload)) = BigCode

\* the dispatches whose context was built and sent
Delegated(i) == dispatches[i].cb = "delgating_handler"

\* the context the inputs of dispatch i describe
ContextOf(i) ==
    LambdaContext_new(TextOfHandle[dispatches[i].c_ctx.function_arn],
                      TextOfHandle[dispatches[i].c_ctx.client_context],
                      Flatten(ChunksOf(dispatches[i].src)))

\* the number of positions of the sequence q that hold an item of dispatch i
Occurrences(q, i) == Cardinality({k \in 1..Len(q) : q[k].id = i})

\* the items the workers took from the channel and have not yet handed over
Held == [w \in 1..Len(workers) |->
            IF workers[w].pc = "got" THEN workers[w].item ELSE NoItem]

\* where the context of dispatch i is: queued, held by a worker, handled
Copies(i) ==
    Occurrences(chan.queue, i) + Occurrences(Held, i) + Occurrences(handled, i)

AllItems == chan.queue \o Held \o handled

\* C1: for every dispatch whose build_context and send succeed, the context
\* is in the channel, with one worker, or handled, exactly once in all, so
\* handle is called at most once for it and, once no copy is left on the
\* way, exactly once; it equals the context built from the inputs; and
\* nothing else ever reaches a handler.
C1_ExactlyOnceUnaltered ==
    /\ \A i \in 1..Len(dispatches) :
          (Delegated(i) /\ AllReadsSucceed(dispatches[i].src)) =>
              /\ Copies(i) = 1
              /\ \A k \in 1..Len(AllItems) :
                    AllItems[k].id = i => AllItems[k].ctx = ContextOf(i)
    /\ \A k \in 1..Len(handled) :
          /\ handled[k].id \in 1..Len(dispatches)
          /\ Delegated(handled[k].id)
          /\ AllReadsSucceed(dispatches[handled[k].id].src)

C1_Witness ==
    /\ Len(dispatches) = 2 /\ Len(handled) = 2
    /\ chan.queue = <<>>
    /\ handled[1].id = 1 /\ handled[2].id = 2
    /\ handled[1].ctx = LambdaContext_new(<<233>>, <<97>>, <<8, 9, 7>>)
    /\ handled[2].ctx = LambdaContext_new(<<97>>, <<>>, <<7>>)

\* C2: contexts reach the handler in the order their dispatches sent them
\* into the channel.
C2_HandledInSendOrder ==
    \A j \in 1..Len(handled), k \in 1..Len(handled) :
        j < k => handled[j].id < handled[k].id

\* dispatch i is waiting in the channel
Queued(i) == Occurrences(chan.queue, i) > 0

\* a recv has returned the context of dispatch i, unchanged
Received(i) ==
    \E k \in 1..Len(Held \o handled) :
        /\ (Held \o handled)[k].id = i
        /\ (Held \o handled)[k].ctx = ContextOf(i)

\* C3: every context ChannelHolder::send enqueued is eventually returned
\* by a ChannelHolder::recv of a worker, equal in all fields to the one
\* sent (the workers being scheduled fairly).
C3_SentIsReceived ==
    \A i \in 1..MaxDispatch : Queued(i) ~> Received(i)

C3_Witness ==
    /\ Len(dispatches) = 2
    /\ Queued(2) /\ Received(1)
    /\ \E w \in 1..Len(workers) : workers[w].pc = "handling"

\* C10: when build_context fails inside delgating_handler (ChannelHolder::
\* send has no failing case while CHANNEL holds the receiver), the callback
\* logs the error and returns normally, nothing is enqueued and no handler
\* is called for that dispatch, and a later dispatch whose build succeeds
\* is still sent on.
C10_FailureAbsorbed ==
    \A i \in 1..Len(dispatches), f \in 1..MaxReads :
        (Delegated(i) /\ FirstFailure(dispatches[i].src, f)) =>
            /\ dispatches[i].ret = "returned"
            /\ Len(dispatches[i].errors) = 1
            /\ MatchesCode(dispatches[i].errors[1], dispatches[i].src[f].code)
            /\ Copies(i) = 0
            /\ \A j \in (i + 1)..Len(dispatches) :
                  (Delegated(j) /\ AllReadsSucceed(dispatches[j].src)) =>
                      (dispatches[j].ret = "returned" /\ Copies(j) = 1)

C10_Witness ==
    /\ Len(dispatches) = 2
    /\ Delegated(1) /\ FirstFailure(dispatches[1].src, 2)
    /\ dispatches[1].errors = <<GGError("InvalidState", <<>>)>>
    /\ Delegated(2) /\ AllReadsSucceed(dispatches[2].src)
    /\ Len(handled) = 1 /\ handled[1].id = 2

\* C12: Runtime::start returns Ok(()) if and only if gg_runtime_start
\* returns the success status; for any other status it returns the variant
\* matching it (Terminate for the terminate code), and Initializer::init
\* returns that same error to its caller.
C12_StartResult ==
    (main.pc = "idle" /\ main.start_res # <<>>) =>
        /\ Len(main.started) = 1 /\ Len(main.result) = 1
        /\ main.started[1] = Ok(Unit) <=> main.start_res[1] = gg_error_GGE_SUCCESS
        /\ main.start_res[1] # gg_error_GGE_SUCCESS =>
              /\ IsErrOf(main.started[1], main.start_res[1])
              /\ main.result[1] = main.started[1]
        /\ main.start_res[1] = gg_error_GGE_TERMINATE =>
              main.result[1] = Err(GGError("Terminate", <<>>))

C12_Witness ==
    /\ main.pc = "idle"
    /\ main.start_res = <<gg_error_GGE_TERMINATE>>
    /\ main.started = <<Err(GGError("Terminate", <<>>))>>
    /\ main.result = <<Err(GGError("Terminate", <<>>))>>

\* C13: at most one worker thread drains the handoff channel, whatever
\* sequence of Initializer::init calls with a handler was made.
C13_AtMostOneWorker == Len(workers) <= 1

\* C14: with RuntimeOption::Sync start() passes the flag 0 and the caller
\* stays inside gg_runtime_start until the native library exits; with
\* RuntimeOption::Async start() passes the async flag and returns while the
\* native library keeps the callback and goes on dispatching.
C14_StartModes ==
    [][/\ main'.pc = "in_native" =>
              /\ main'.opt = "Sync"
              /\ native'.opt = 0
              /\ native'.cb = c_handler(main')
       /\ (main.pc = "native_start" /\ main'.pc = "idle"
              /\ main'.start_res = <<gg_error_GGE_SUCCESS>>) =>
              /\ main.opt = "Async"
              /\ native'.opt = gg_runtime_opt_GG_RT_OPT_ASYNC
              /\ native'.cb = c_handler(main)
       /\ (main.pc = "native_start" /\ main.opt = "Sync" /\ main'.pc = "idle") =>
              /\ main'.start_res # <<gg_error_GGE_SUCCESS>>
              /\ native' = native
       /\ (main.pc = "in_native" /\ main'.pc = "idle") => native'.cb = "none"
      ]_vars

C14_Witness ==
    /\ main.pc = "in_native" /\ main.opt = "Sync"
    /\ native = [cb |-> "delgating_handler", opt |-> 0]
    /\ Len(dispatches) >= 1

BuiltOf == [in \in DispatchInputs |-> build_context(in.c_ctx, in.src).res]

\* C16: the callback is never blocked by application logic: whatever the
\* workers are doing and however many contexts are queued, the send of
\* delgating_handler does not block, and every dispatch has returned.
C16_CallbackNeverBlocked ==
    /\ \A in \in DispatchInputs :
          BuiltOf[in].ok =>
              ~ChannelHolder_send(chan, BuiltOf[in].val, Len(dispatches) + 1).blocks
    /\ \A i \in 1..Len(dispatches) : dispatches[i].ret = "returned"

C16_Witness ==
    /\ Len(workers) = 1 /\ workers[1].pc = "handling"
    /\ Len(handled) = 1 /\ handled[1].id = 1
    /\ Len(dispatches) >= 2 /\ Queued(2)

\* C17: without a handler start() spawns no worker and registers the no-op
\* callback; a dispatch of the no-op callback reads nothing, sends nothing
\* and reaches no handler, so with no worker the channel stays empty and
\* nothing is handled, however many dispatches are made.
C17_NoHandlerNoEffect ==
    /\ [](workers = <<>> =>
            /\ chan.queue = <<>> /\ handled = <<>>
            /\ \A i \in 1..Len(dispatches) : dispatches[i].cb = "no_op_handler")
    /\ [][/\ (main.pc = "start" /\ ~main.handler /\ main'.pc = "native_start") =>
                workers' = workers
          /\ (main.pc = "native_start" /\ ~main.handler /\ native' # native) =>
                native'.cb = "no_op_handler"
          /\ (native.cb = "no_op_handler" /\ Len(dispatches') > Len(dispatches)) =>
                /\ chan' = chan /\ handled' = handled /\ workers' = workers
                /\ dispatches'[Len(dispatches')].reads = 0
                /\ dispatches'[Len(dispatches')].built = <<>>
                /\ dispatches'[Len(dispatches')].errors = <<>>
         ]_vars

C17_Witness ==
    /\ workers = <<>> /\ main.calls >= 1
    /\ native.cb = "no_op_handler"
    /\ Len(dispatches) >= 2
    /\ \A i \in 1..Len(dispatches) : dispatches[i].reads = 0
    /\ chan.queue = <<>> /\ handled = <<>>

\* C18: the handoff channel is never closed: the process-wide holder owns
\* the sender and the receiver in every reachable state, so a send never
\* fails with the channel-send failure and a recv never fails with the
\* channel-receive failure; recv blocks or returns a context.
C18_ChannelNeverClosed ==
    /\ chan.senders = 1 /\ chan.receivers = 1
    /\ ChannelHolder_send(chan, NoItem.ctx, 0).res.ok
    /\ LET r == ChannelHolder_recv(chan)
       IN  \/ r.blocks
           \/ r.res.ok /\ r.res.val = Head(chan.queue)
    /\ \A i \in 1..Len(dispatches) :
          \A k \in 1..Len(dispatches[i].errors) :
              dispatches[i].errors[k].kind \notin
                  {"HandlerChannelSendError", "HandlerChannelRecvError"}

C18_Witness ==
    /\ Len(handled) >= 1
    /\ chan.queue = <<>> /\ ChannelHolder_recv(chan).blocks
    /\ \E w \in 1..Len(workers) : workers[w].pc = "recv"
    /\ chan.senders = 1 /\ chan.receivers = 1

\* C19: Initializer::init calls gg_global_init first: on a non-success
\* status it returns the matching error without entering Runtime::start,
\* so no worker is spawned and no callback is registered by that call.
C19_InitFirst ==
    /\ [](main.pc \in {"start", "native_start", "in_native"} =>
            main.init_res = <<gg_error_GGE_SUCCESS>>)
    /\ []((main.pc = "idle" /\ main.init_res # <<>>
              /\ main.init_res # <<gg_error_GGE_SUCCESS>>) =>
            /\ main.start_res = <<>> /\ main.started = <<>>
            /\ Len(main.result) = 1 /\ IsErrOf(main.result[1], main.init_res[1]))
    /\ [][(main.pc = "idle" /\ main'.calls = main.calls + 1
              /\ main'.init_res # <<gg_error_GGE_SUCCESS>>) =>
            /\ main'.pc = "idle"
            /\ workers' = workers
            /\ native' = native
         ]_vars

C19_Witness ==
    /\ main.pc = "idle" /\ main.calls = 1
    /\ main.init_res = <<gg_error_GGE_INVALID_STATE>>
    /\ main.result = <<Err(GGError("InvalidState", <<>>))>>
    /\ main.start_res = <<>>
    /\ workers = <<>> /\ native.cb = "none"

\* C20: with a handler configured the worker is spawned before
\* gg_runtime_start is called; when that call returns a non-success status
\* start() returns the error and the worker stays, blocked on recv while
\* the channel is empty: it is neither stopped nor joined.
C20_WorkerOutlivesFailedStart ==
    /\ []((main.pc \in {"native_start", "in_native"} /\ main.handler) =>
            \E w \in 1..Len(workers) : workers[w].handler = main.calls)
    /\ [][/\ Len(workers') >= Len(workers)
          /\ (main.pc \in {"native_start", "in_native"} /\ main'.pc = "idle"
                 /\ main.handler
                 /\ main'.start_res # <<gg_error_GGE_SUCCESS>>) =>
                /\ ~main'.result[1].ok
                /\ workers' = workers
                /\ \E w \in 1..Len(workers') :
                      /\ workers'[w].handler = main.calls
                      /\ workers'[w].pc \in {"recv", "got", "handling"}
                      /\ (dispatches = <<>>) =>
                            /\ workers'[w].pc = "recv"
                            /\ ChannelHolder_recv(chan').blocks
         ]_vars

C20_Witness ==
    /\ main.pc = "idle" /\ main.calls = 1
    /\ main.start_res = <<gg_error_GGE_INVALID_STATE>>
    /\ main.result = <<Err(GGError("InvalidState", <<>>))>>
    /\ Len(workers) = 1 /\ workers[1].pc = "recv" /\ workers[1].handler = 1
    /\ ChannelHolder_recv(chan).blocks

====
